---- MODULE Spec2Model ----
(***************************************************************************)
(* mqtt_topic_exporter: the message-to-metric Transformer (TopicToMetric). *)
(* Text is a sequence of one-character strings.  The clock is an integer   *)
(* number of seconds.                                                      *)
(***************************************************************************)
EXTENDS Integers, Sequences, FiniteSets, TLC

\* ------------------------------------------------------------------ bounds
\* the clock runs over 0..MaxTime
MaxTime == 1

\* ------------------------------------------------------------- Optional[T]
None == [some |-> FALSE]
Some(x) == [some |-> TRUE, v |-> x]

\* ---------------------------------------------------------------- alphabet
Digits == {"1", "2"}
Chars == {"t", "u", "/", "a", "b", " ", "x", "."} \cup Digits
\* [^/ ]
NotSlashSpace == Chars \ {"/", " "}
\* .  (every character but a newline; the alphabet holds no newline)
AnyChar == Chars

RECURSIVE Concat(_)
\* ''.join(parts)
Concat(parts) ==
    IF parts = <<>> THEN <<>> ELSE Head(parts) \o Concat(Tail(parts))

\* ------------------------------------------------------------------ regexps
\* A pattern is a sequence of tokens: Lit(c) matches the character c, and
\* Grp(S) is the capturing group ([S]+), greedy.  In every pattern used here
\* a group is last or is followed by a literal outside its class, so the
\* greedy scan below is the match the backtracking engine finds.
Lit(c) == [kind |-> "lit", ch |-> c, set |-> {}]
Grp(S) == [kind |-> "grp", ch |-> "", set |-> S]

NoMatch == [ok |-> FALSE, end |-> 0, groups |-> <<>>]

RECURSIVE RunEnd(_, _, _)
\* first position at or after i whose character is outside S
RunEnd(S, text, i) ==
    IF i <= Len(text) /\ text[i] \in S THEN RunEnd(S, text, i + 1) ELSE i

RECURSIVE MatchFrom(_, _, _, _, _)
\* match tokens k.. of pattern against text from position i, groups so far gs
MatchFrom(pattern, k, text, i, gs) ==
    IF k > Len(pattern) THEN [ok |-> TRUE, end |-> i, groups |-> gs]
    ELSE IF pattern[k].kind = "lit"
    THEN IF i <= Len(text) /\ text[i] = pattern[k].ch
         THEN MatchFrom(pattern, k + 1, text, i + 1, gs)
         ELSE NoMatch
    ELSE LET j == RunEnd(pattern[k].set, text, i)
         IN  IF j = i THEN NoMatch
             ELSE MatchFrom(pattern, k + 1, text, j,
                            Append(gs, SubSeq(text, i, j - 1)))

\* the match of pattern that starts at position i of text, or NoMatch
MatchAt(pattern, text, i) == MatchFrom(pattern, 1, text, i, <<>>)

\* re.match(pattern, text): anchored at the start, not at the end
re_match(pattern, text) == MatchAt(pattern, text, 1)

\* A template is a sequence of items: a literal character or \N.
TChar(c) == [ref |-> 0, ch |-> c]
TRef(n) == [ref |-> n, ch |-> ""]

RECURSIVE Expand(_, _)
\* the template with each \N replaced by group N of the match
Expand(template, groups) ==
    IF template = <<>> THEN <<>>
    ELSE LET it == Head(template)
         IN  (IF it.ref = 0 THEN <<it.ch>> ELSE groups[it.ref])
             \o Expand(Tail(template), groups)

RECURSIVE SubFrom(_, _, _, _)
\* re.sub from position i on: every non-overlapping match, left to right, is
\* replaced by the expanded template; text outside the matches is copied
SubFrom(pattern, template, text, i) ==
    IF i > Len(text) THEN <<>>
    ELSE LET m == MatchAt(pattern, text, i)
         IN  IF m.ok
             THEN Expand(template, m.groups) \o SubFrom(pattern, template, text, m.end)
             ELSE <<text[i]>> \o SubFrom(pattern, template, text, i + 1)

\* re.sub(pattern, template, text)
re_sub(pattern, template, text) == SubFrom(pattern, template, text, 1)

\* TopicToMetric.match_to_template
match_to_template(pattern, template, text) ==
    IF re_match(pattern, text).ok
    THEN Some(re_sub(pattern, template, text))
    ELSE None


\* ------------------------------------------------------------------- float()
RECURSIVE Strip(_)
\* str.strip(): float() ignores leading and trailing whitespace
Strip(s) ==
    IF s = <<>> THEN s
    ELSE IF Head(s) = " " THEN Strip(Tail(s))
    ELSE IF s[Len(s)] = " " THEN Strip(SubSeq(s, 1, Len(s) - 1))
    ELSE s

\* float(value) does not raise ValueError.  Over this alphabet (no sign, no
\* exponent, no letter of inf or nan, no underscore) the accepted texts are
\* digits with at most one point and at least one digit.
IsFloat(value) ==
    LET s == Strip(value)
        points == {i \in 1..Len(s) : s[i] = "."}
    IN  /\ s # <<>>
        /\ \A i \in 1..Len(s) : s[i] \in Digits \cup {"."}
        /\ Cardinality(points) <= 1
        /\ \E i \in 1..Len(s) : s[i] \in Digits

\* ------------------------------------------------------------ configurations
\* t/([^/ ]+) (\d+)
PatDigits == <<Lit("t"), Lit("/"), Grp(NotSlashSpace), Lit(" "), Grp(Digits)>>
\* t/([^/ ]+) (.+)
PatAny == <<Lit("t"), Lit("/"), Grp(NotSlashSpace), Lit(" "), Grp(AnyChar)>>
\* n="\1"
LabelsTemplate == <<TChar("n"), TChar("="), TChar("\""), TRef(1), TChar("\"")>>
\* \2
ValueTemplate == <<TRef(2)>>

\* the no_activity_timeout of the configurations that set one
Timeout == 0

\* TopicToMetricConfig with its defaults
TopicToMetricConfig ==
    [ topic |-> <<"t", "/", "#">>,
      metric_name |-> <<"m">>,
      metric_type |-> <<"g">>,
      metric_help |-> None,
      topic_payload_pattern |-> PatDigits,
      labels_template |-> LabelsTemplate,
      value_template |-> ValueTemplate,
      topic_payload_separator |-> <<" ">>,
      no_activity_timeout |-> None,
      only_float_values |-> TRUE,
      status_good_topic |-> None,
      status_good_payload |-> None,
      status_bad_topic |-> None,
      status_bad_payload |-> None ]

StatusGoodTopic == <<"s", "/", "g">>
StatusBadTopic == <<"s", "/", "d">>
GoodPayload == <<"1">>
BadPayload == <<"2">>

\* the configuration of the unit tests: a timeout, no status topics
ConfTimeout ==
    [TopicToMetricConfig EXCEPT !.no_activity_timeout = Some(Timeout)]
\* any payload matches; a help text
ConfAny ==
    [TopicToMetricConfig EXCEPT !.topic_payload_pattern = PatAny,
                                !.metric_help = Some(<<"h">>)]
\* values that are no numbers are wanted; a help text
ConfNoFloat ==
    [TopicToMetricConfig EXCEPT !.only_float_values = FALSE,
                                !.metric_help = Some(<<"h">>)]
\* both status topics, and a timeout
ConfStatus ==
    [TopicToMetricConfig EXCEPT !.no_activity_timeout = Some(Timeout),
                                !.status_good_topic = Some(StatusGoodTopic),
                                !.status_good_payload = Some(GoodPayload),
                                !.status_bad_topic = Some(StatusBadTopic),
                                !.status_bad_payload = Some(BadPayload)]
\* a status-bad topic on its own
ConfBadOnly ==
    [TopicToMetricConfig EXCEPT !.status_bad_topic = Some(StatusBadTopic),
                                !.status_bad_payload = Some(BadPayload)]

\* the configurations of the Transformer that handles data messages and
\* scrapes
Configs == {ConfTimeout, ConfNoFloat}

\* the configurations of the Transformer that also handles status messages
StatusConfigs == {ConfStatus, ConfBadOnly}

\* ---------------------------------------------------------------- messages
TopicA == <<"t", "/", "a">>
TopicB == <<"t", "/", "b">>
\* a topic no pattern matches
TopicU == <<"u", "/", "a">>
Topics == {TopicA, TopicB, TopicU}
\* data payloads: a number, a number followed by more text, no number
Payloads == {<<"1">>, <<"1", "x">>, <<"x">>}
\* payloads on the status topics: each handler's configured payload is the
\* other's unconfigured one
StatusPayloads == {GoodPayload, BadPayload}
\* the data messages that arrive between status messages
GatedTopics == {TopicA, TopicB}
GatedPayloads == {<<"1">>}

\* -------------------------------------------------------------------- state
VARIABLES
    conf,              \* TopicToMetric.conf
    processed_topics,  \* TopicToMetric.processed_topics, in insertion order
    now,               \* datetime.datetime.now(), in seconds
    last,              \* the most recent step and what the call returned
    first_seen,        \* history: topics in the order of their first match
    latest,            \* history: topic -> payload and time of its latest match
    applied_status,    \* history: the latest status payload observed
    status_call        \* the dispatch thread's place in the loop of _set_status

vars == <<conf, processed_topics, now, last, first_seen, latest, applied_status,
          status_call>>

\* the command trigger of mqtt-cmd.py: the Command object, the processes Popen
\* has started, the number of Popen calls, and the most recent step
VARIABLES
    command,
    children,
    popen_calls,
    cmd_last

cmd_vars == <<command, children, popen_calls, cmd_last>>

\* the router (class MQTTClient of both programs): its list of actions, the mode
\* it was started in, where the session stands, whether the first-connection
\* warning was logged, the transport's table of per-filter callbacks, the
\* filters subscribed, whether the broker can be reached, the most recent
\* inbound message with the handlers it reached, and the number of calls of
\* on_connect
VARIABLES
    uows,
    mode,
    session,
    warned,
    callbacks,
    subscriptions,
    broker_up,
    dispatched,
    connects

router_vars == <<uows, mode, session, warned, callbacks, subscriptions,
                 broker_up, dispatched, connects>>

\* the two threads of mqtt_topic_exporter.py that share a Transformer: the
\* transport's thread inside on_message and an HTTP request thread inside
\* get_metric_text
VARIABLES
    dispatch_thread,
    request_thread

thread_vars == <<dispatch_thread, request_thread>>

\* one call of TopicToMetric.match_to_template: its arguments and, once it has
\* returned, its result
VARIABLES
    matcher

match_vars == <<matcher>>

\* the start of main(): the configuration file read and what parse_config made
\* of it
VARIABLES
    startup

config_vars == <<startup>>

\* the exporter (class PrometheusExporter) over its list of Transformers: the
\* list, the clock, the most recent call, the dispatch thread's place in a
\* Transformer's loop of _set_status and in a Transformer's on_message, and a
\* request thread's place in metrics_text
VARIABLES
    ttms,
    clock,
    exporter_last,
    ttm_status_call,
    ttm_dispatch,
    exporter_request

exporter_vars == <<ttms, clock, exporter_last, ttm_status_call, ttm_dispatch,
                   exporter_request>>

\* what the steps of the metric transformer leave alone
others == <<cmd_vars, router_vars, thread_vars, match_vars,
            config_vars, exporter_vars>>

\* what the steps of the command trigger leave alone
cmd_others == <<vars, router_vars, thread_vars, match_vars,
                config_vars, exporter_vars>>

\* what the steps of the router leave alone
router_others == <<vars, cmd_vars, thread_vars, match_vars,
                   config_vars, exporter_vars>>

\* what the steps of the two threads leave alone
thread_others == <<cmd_vars, router_vars, match_vars,
                   config_vars, exporter_vars>>

\* what the steps of the exporter leave alone
exporter_others == <<vars, cmd_vars, router_vars, thread_vars, match_vars,
                     config_vars>>

allvars == <<vars, cmd_vars, router_vars, thread_vars, match_vars,
             config_vars, exporter_vars>>

\* datetime.datetime.fromtimestamp(0): long before the process started
Epoch == -1000

\* Metric(): a default-constructed record
Metric ==
    [ metric_labels |-> <<>>,
      metric_value |-> <<>>,
      last_update |-> Epoch,
      status_is_good |-> FALSE ]

\* the keys of the map, in order
Keys(pt) == [i \in 1..Len(pt) |-> pt[i].topic]
KeySet(pt) == {pt[i].topic : i \in 1..Len(pt)}
\* the position of topic in the map
IndexOf(pt, topic) == CHOOSE i \in 1..Len(pt) : pt[i].topic = topic
\* the record of a topic that is in the map
Get(pt, topic) == pt[IndexOf(pt, topic)].metric

\* ------------------------------------------------------------- on_message
\* topic + conf.topic_payload_separator + payload
Combined(c, topic, payload) == topic \o c.topic_payload_separator \o payload

\* TopicToMetric._valid_metric_value
_valid_metric_value(c, value) ==
    IF ~c.only_float_values THEN TRUE ELSE IsFloat(value)

\* re.match(pattern, combined) is not None
Matches(c, topic, payload) ==
    re_match(c.topic_payload_pattern, Combined(c, topic, payload)).ok

\* the labels and the value on_message extracts from a message, or None when
\* either call of match_to_template returns None
Extracted(c, topic, payload) ==
    LET combined == Combined(c, topic, payload)
        metric_labels ==
            match_to_template(c.topic_payload_pattern, c.labels_template, combined)
        metric_value ==
            match_to_template(c.topic_payload_pattern, c.value_template, combined)
    IN  IF metric_labels # None /\ metric_value # None
        THEN Some([metric_labels |-> metric_labels.v,
                   metric_value |-> metric_value.v])
        ELSE None

\* a defaultdict that moves the key it is asked for to the end
defaultdict_getitem_move_to_end(pt, topic) ==
    IF topic \in KeySet(pt)
    THEN Append(SelectSeq(pt, LAMBDA e : e.topic # topic),
                [topic |-> topic, metric |-> Get(pt, topic)])
    ELSE Append(pt, [topic |-> topic, metric |-> Metric])

\* defaultdict.__getitem__: a missing key is inserted, last, with Metric()
defaultdict_getitem(pt, topic) ==
    IF topic \in KeySet(pt) THEN pt
    ELSE Append(pt, [topic |-> topic, metric |-> Metric])

\* on_message that fetches the record before it looks at the match
Fetched_fetch_first(c, pt, topic, payload) == defaultdict_getitem(pt, topic)

\* on_message over a map that holds one record: a new topic evicts the oldest
Fetched_evict_oldest(c, pt, topic, payload) ==
    IF Extracted(c, topic, payload) # None
    THEN IF topic \in KeySet(pt) \/ pt = <<>> THEN defaultdict_getitem(pt, topic)
         ELSE defaultdict_getitem(Tail(pt), topic)
    ELSE pt

\* the map after on_message has run up to metric = self.processed_topics[topic],
\* which it reaches when both extractions succeeded.  The result of
\* _valid_metric_value only decides a debug log line.
Fetched(c, pt, topic, payload) ==
    IF Extracted(c, topic, payload) # None
    THEN defaultdict_getitem(pt, topic)
    ELSE pt

\* the dispatch thread between two calls of on_message
DispatchIdle ==
    [pc |-> "idle", topic |-> <<>>, payload |-> <<>>, metric_labels |-> <<>>,
     metric_value |-> <<>>, t |-> 0, before |-> <<>>]

\* the dispatch thread after on_message has fetched the record: its locals, the
\* map as the call found it, and the statement it is at
Entered(c, pt, topic, payload) ==
    LET x == Extracted(c, topic, payload)
    IN  IF x = None THEN DispatchIdle
        ELSE [pc |-> "now", topic |-> topic, payload |-> payload,
              metric_labels |-> x.v.metric_labels,
              metric_value |-> x.v.metric_value,
              t |-> 0, before |-> pt]

\* an assignment that reaches every record of the map
SetField_shared(pt, topic, field, value) ==
    [i \in 1..Len(pt) |->
        [pt[i] EXCEPT !.metric = [@ EXCEPT ![field] = value]]]

\* an assignment that keeps what a record already holds
SetField_keep_first(pt, topic, field, value) ==
    [i \in 1..Len(pt) |->
        IF pt[i].topic = topic /\ pt[i].metric[field] = Metric[field]
        THEN [pt[i] EXCEPT !.metric = [@ EXCEPT ![field] = value]]
        ELSE pt[i]]

\* the map with one field of the record of topic assigned
SetField(pt, topic, field, value) ==
    [i \in 1..Len(pt) |->
        IF pt[i].topic = topic
        THEN [pt[i] EXCEPT !.metric = [@ EXCEPT ![field] = value]]
        ELSE pt[i]]

\* the map after the statement the dispatch thread is at: the call of
\* datetime.datetime.now() changes nothing, each assignment one field
MapAfterStep(c, pt, thread) ==
    CASE thread.pc = "last_update" ->
             SetField(pt, thread.topic, "last_update", thread.t)
      [] thread.pc = "status_is_good" ->
             SetField(pt, thread.topic, "status_is_good", TRUE)
      [] thread.pc = "metric_labels" ->
             SetField(pt, thread.topic, "metric_labels", thread.metric_labels)
      [] thread.pc = "metric_value" ->
             SetField(pt, thread.topic, "metric_value", thread.metric_value)
      [] OTHER -> pt

\* the dispatch thread after the statement it is at, with the clock at t:
\* datetime.datetime.now() is evaluated before metric.last_update is assigned,
\* metric.status_is_good is assigned when no status-good topic is configured,
\* and after metric.metric_value on_message returns
ThreadAfterStep(c, thread, t) ==
    CASE thread.pc = "now" ->
             [thread EXCEPT !.t = t, !.pc = "last_update"]
      [] thread.pc = "last_update" ->
             [thread EXCEPT !.pc = IF c.status_good_topic = None
                                   THEN "status_is_good" ELSE "metric_labels"]
      [] thread.pc = "status_is_good" ->
             [thread EXCEPT !.pc = "metric_labels"]
      [] thread.pc = "metric_labels" ->
             [thread EXCEPT !.pc = "metric_value"]
      [] OTHER -> DispatchIdle

Call(op, topic, payload, text) ==
    [op |-> op, topic |-> topic, payload |-> payload, text |-> text,
     raised |-> FALSE, pending |-> FALSE, alone |-> FALSE, again |-> FALSE,
     start_keys |-> <<>>, visited |-> <<>>]

\* get_metric_text has been called and has not returned; event is the latest
\* call before this one: when that is a scrape that ran alone, its text is kept
Calling(event) ==
    IF event.op = "get_metric_text" /\ event.alone
    THEN [Call("get_metric_text", <<>>, <<>>, event.text)
             EXCEPT !.pending = TRUE, !.again = TRUE]
    ELSE [Call("get_metric_text", <<>>, <<>>, <<>>) EXCEPT !.pending = TRUE]

\* TopicToMetric.on_message is called on the dispatch thread and runs up to
\* metric = self.processed_topics[topic]; with a message that does not match it
\* returns
on_message(topic, payload) ==
    /\ dispatch_thread.pc = "idle"
    /\ ~status_call.active
    /\ processed_topics' = Fetched(conf, processed_topics, topic, payload)
    /\ dispatch_thread' = Entered(conf, processed_topics, topic, payload)
    /\ last' = Call("on_message", topic, payload, <<>>)
    /\ first_seen' = IF Matches(conf, topic, payload) /\ topic \notin KeySet(first_seen)
                     THEN Append(first_seen, [topic |-> topic])
                     ELSE first_seen
    /\ UNCHANGED <<conf, now, latest, applied_status, status_call>>
    /\ UNCHANGED <<request_thread, thread_others>>

\* the next statement of the call of on_message in progress: the clock is read,
\* or one field of the record is assigned; a scrape on a request thread may run
\* before the next one
OnMessageStep ==
    /\ dispatch_thread.pc # "idle"
    /\ processed_topics' = MapAfterStep(conf, processed_topics, dispatch_thread)
    /\ dispatch_thread' = ThreadAfterStep(conf, dispatch_thread, now)
    /\ last' = Call("on_message", dispatch_thread.topic, dispatch_thread.payload, <<>>)
    /\ latest' = IF dispatch_thread.pc = "now"
                 THEN [latest EXCEPT ![dispatch_thread.topic] =
                          Some([payload |-> dispatch_thread.payload, at |-> now])]
                 ELSE latest
    /\ UNCHANGED <<conf, now, first_seen, applied_status, status_call>>
    /\ UNCHANGED <<request_thread, thread_others>>

\* ------------------------------------------------------------------ status
\* a call of _set_status in progress: the value it assigns and the place in
\* the map of the record its loop turns to next
StatusCall(is_good, next) == [active |-> TRUE, is_good |-> is_good, next |-> next]

\* no call of _set_status is in progress
StatusIdle == [active |-> FALSE, is_good |-> FALSE, next |-> 0]

\* a turn of the loop that builds the record anew
_set_status_turn_reset(pt, k, is_good) ==
    [pt EXCEPT ![k].metric = [Metric EXCEPT !.status_is_good = is_good]]

\* one turn of the loop of TopicToMetric._set_status, for the k-th record
_set_status_turn(pt, k, is_good) ==
    [pt EXCEPT ![k].metric.status_is_good = IF @ # is_good THEN is_good ELSE @]

\* _set_status is called when the payload is the configured one, and its loop
\* has a first turn when the map holds a record
BeginSetStatus(configured, payload, pt, is_good) ==
    IF configured = Some(payload) /\ pt # <<>>
    THEN StatusCall(is_good, 1)
    ELSE StatusIdle

\* after the turn for its last record _set_status and the handler return
AfterTurn(call, pt) ==
    IF call.next = Len(pt) THEN StatusIdle ELSE [call EXCEPT !.next = @ + 1]

\* TopicToMetric.on_status_good, which MQTTClient.on_connect binds to the
\* status-good topic when one is configured: the call, on the dispatch thread,
\* up to the loop of _set_status
on_status_good(topic, payload) ==
    /\ dispatch_thread.pc = "idle"
    /\ ~status_call.active
    /\ conf.status_good_topic = Some(topic)
    /\ status_call' = BeginSetStatus(conf.status_good_payload, payload,
                                     processed_topics, TRUE)
    /\ last' = Call("on_status_good", topic, payload, <<>>)
    /\ applied_status' = IF Some(payload) = conf.status_good_payload
                         THEN Some(TRUE) ELSE applied_status
    /\ UNCHANGED <<conf, processed_topics, now, first_seen, latest>>
    /\ UNCHANGED others

\* TopicToMetric.on_status_bad, which MQTTClient.on_connect binds to the
\* status-bad topic when one is configured: the call, on the dispatch thread,
\* up to the loop of _set_status
on_status_bad(topic, payload) ==
    /\ dispatch_thread.pc = "idle"
    /\ ~status_call.active
    /\ conf.status_bad_topic = Some(topic)
    /\ status_call' = BeginSetStatus(conf.status_bad_payload, payload,
                                     processed_topics, FALSE)
    /\ last' = Call("on_status_bad", topic, payload, <<>>)
    /\ applied_status' = IF Some(payload) = conf.status_bad_payload
                         THEN Some(FALSE) ELSE applied_status
    /\ UNCHANGED <<conf, processed_topics, now, first_seen, latest>>
    /\ UNCHANGED others

\* one turn of the loop of _set_status: the next record is checked, changed
\* and logged; a scrape on a request thread may run before the next turn
SetStatusTurn ==
    /\ status_call.active
    /\ processed_topics' = _set_status_turn(processed_topics, status_call.next,
                                            status_call.is_good)
    /\ status_call' = AfterTurn(status_call, processed_topics)
    /\ last' = Call("_set_status", <<>>, <<>>, <<>>)
    /\ UNCHANGED <<conf, now, first_seen, latest, applied_status>>
    /\ UNCHANGED others

\* ------------------------------------------------------------------ render
\* the characters of fixed text
TYPE_ == <<"#", "T", "Y", "P", "E", " ">>
HELP_ == <<"#", "H", "E", "L", "P", " ">>
NL == <<"\n">>

\* TopicToMetric._render_metric_header
_render_metric_header(c) ==
    TYPE_ \o c.metric_name \o <<" ">> \o c.metric_type \o NL
    \o (IF c.metric_help # None /\ c.metric_help.v # <<>>
        THEN HELP_ \o c.metric_name \o <<" ">> \o c.metric_help.v \o NL
        ELSE <<>>)

\* f'{conf.metric_name}{{{metric.metric_labels}}} {metric.metric_value}\n'
BodyLine(c, metric_labels, metric_value) ==
    c.metric_name \o <<"{">> \o metric_labels \o <<"}">> \o <<" ">>
    \o metric_value \o NL

\* Outdated with >= for >
Outdated_at_timeout(c, last_update, t) ==
    /\ c.no_activity_timeout # None
    /\ t - last_update >= c.no_activity_timeout.v

\* now - metric.last_update > timeout, when a timeout is configured
Outdated(c, last_update, t) ==
    /\ c.no_activity_timeout # None
    /\ t - last_update > c.no_activity_timeout.v

\* TopicToMetric._render_metric_text after its loop: ''.join(metric_text)
_render_metric_text(metric_text) == Concat(metric_text)

\* TopicToMetric.get_metric_text, given the text of _render_metric_text
get_metric_text(c, text) ==
    IF text = <<>> THEN <<>> ELSE _render_metric_header(c) \o text

\* a request thread that has not called get_metric_text
RequestIdle ==
    [pc |-> "idle", used |-> 0, index |-> 0, t |-> 0, metric_labels |-> <<>>,
     metric_text |-> <<>>, start_keys |-> <<>>, visited |-> <<>>]

\* the iterator of self.processed_topics.items() finds the size of the map
\* changed since it was created and raises RuntimeError
IteratorRaises(thread, pt) == Len(pt) # thread.used

\* the iterator has yielded every record of the map
IteratorEnds(thread, pt) == thread.index = Len(pt)

\* the loop of _render_metric_text takes the record the iterator yields: with
\* a timeout configured it goes on to read the clock, otherwise the gate
Yielded(c, thread) ==
    [thread EXCEPT !.index = @ + 1,
                   !.pc = IF c.no_activity_timeout # None
                          THEN "now" ELSE "status_is_good"]

\* the loop's next read for the record metric it is at, with the clock at t:
\* datetime.datetime.now(), then metric.last_update and the comparison, then
\* metric.status_is_good, then metric.metric_labels, then metric.metric_value
\* and the append of the line; a record that fails a check is skipped
LoopStep(c, thread, metric, t) ==
    CASE thread.pc = "now" ->
             [thread EXCEPT !.t = t, !.pc = "last_update"]
      [] thread.pc = "last_update" ->
             [thread EXCEPT !.t = 0,
                            !.pc = IF Outdated(c, metric.last_update, thread.t)
                                   THEN "next" ELSE "status_is_good"]
      [] thread.pc = "status_is_good" ->
             [thread EXCEPT !.pc = IF metric.status_is_good
                                   THEN "metric_labels" ELSE "next"]
      [] thread.pc = "metric_labels" ->
             [thread EXCEPT !.metric_labels = metric.metric_labels,
                            !.pc = "metric_value"]
      [] OTHER ->
             [thread EXCEPT !.metric_text =
                                Append(@, BodyLine(c, thread.metric_labels,
                                                   metric.metric_value)),
                            !.metric_labels = <<>>,
                            !.pc = "next"]

\* get_metric_text is called and _render_metric_text reaches its loop:
\* self.processed_topics.items()
RenderBegin ==
    /\ request_thread.pc = "idle"
    /\ request_thread' =
           [RequestIdle EXCEPT !.pc = "next", !.used = Len(processed_topics),
                               !.start_keys = Keys(processed_topics)]
    /\ last' = Calling(last)
    /\ UNCHANGED <<conf, processed_topics, now, first_seen, latest, applied_status,
                   status_call>>
    /\ UNCHANGED <<dispatch_thread, thread_others>>

\* what get_metric_text returns once the loop has ended; event is the latest
\* call before the return: the scrape ran alone when that is its own call
Returned(c, thread, event) ==
    [Call("get_metric_text", <<>>, <<>>,
          get_metric_text(c, _render_metric_text(thread.metric_text)))
        EXCEPT !.alone = event.pending,
               !.start_keys = thread.start_keys, !.visited = thread.visited]

\* the iterator's RuntimeError leaves get_metric_text
Raised(thread) ==
    [Call("get_metric_text", <<>>, <<>>, <<>>)
        EXCEPT !.raised = TRUE, !.start_keys = thread.start_keys,
               !.visited = thread.visited]

\* a loop that looks a topic up in the defaultdict, which inserts it
RenderNext_inserting ==
    /\ request_thread.pc = "next"
    /\ IF IteratorRaises(request_thread, processed_topics)
       THEN /\ last' = Raised(request_thread)
            /\ request_thread' = RequestIdle
       ELSE IF IteratorEnds(request_thread, processed_topics)
       THEN /\ last' = Returned(conf, request_thread, last)
            /\ request_thread' = RequestIdle
       ELSE /\ request_thread' =
                   [Yielded(conf, request_thread) EXCEPT !.visited =
                       Append(@, processed_topics[request_thread.index + 1].topic)]
            /\ UNCHANGED last
    /\ processed_topics' = defaultdict_getitem(processed_topics, TopicU)
    /\ UNCHANGED <<conf, now, first_seen, latest, applied_status, status_call>>
    /\ UNCHANGED <<dispatch_thread, thread_others>>

\* the loop of _render_metric_text asks the iterator for the next record: the
\* iterator raises RuntimeError when the size of the map has changed, ends
\* after the last record (and get_metric_text returns), and otherwise yields
\* the next record
RenderNext ==
    /\ request_thread.pc = "next"
    /\ IF IteratorRaises(request_thread, processed_topics)
       THEN /\ last' = Raised(request_thread)
            /\ request_thread' = RequestIdle
       ELSE IF IteratorEnds(request_thread, processed_topics)
       THEN /\ last' = Returned(conf, request_thread, last)
            /\ request_thread' = RequestIdle
       ELSE /\ request_thread' =
                   [Yielded(conf, request_thread) EXCEPT !.visited =
                       Append(@, processed_topics[request_thread.index + 1].topic)]
            /\ UNCHANGED last
    /\ UNCHANGED <<conf, processed_topics, now, first_seen, latest, applied_status,
                   status_call>>
    /\ UNCHANGED <<dispatch_thread, thread_others>>

\* the loop's next read of the clock or of a field of the record it is at; the
\* dispatch thread may run before the next read
RenderRead ==
    /\ request_thread.pc \notin {"idle", "next"}
    /\ request_thread' =
           LoopStep(conf, request_thread,
                    processed_topics[request_thread.index].metric, now)
    /\ UNCHANGED <<conf, processed_topics, now, last, first_seen, latest,
                   applied_status, status_call>>
    /\ UNCHANGED <<dispatch_thread, thread_others>>

\* a second passes
Tick ==
    /\ now < MaxTime
    /\ now' = now + 1
    /\ last' = Call("tick", <<>>, <<>>, <<>>)
    /\ UNCHANGED <<conf, processed_topics, first_seen, latest, applied_status, status_call>>
    /\ UNCHANGED others

\* ========================================================= command trigger
\* the most processes one run starts
MaxSpawns == 3

\* payload = 1
CmdPayloadOne == <<Lit("1")>>

\* payload = (.+)
CmdPayloadAny == <<Grp(AnyChar)>>

CmdPayloadPatterns == {CmdPayloadOne, CmdPayloadAny}

\* Command.__init__
Command(payload) == [payload |-> payload, subprocess |-> None]

\* Popen.poll() is not None
Exited(procs, handle) == procs[handle.v] = "exited"

\* a process is started for every matching message
CanSpawn_always(procs, handle) == TRUE

\* a process is started only while none was ever started
CanSpawn_only_first(procs, handle) == handle = None

\* the condition of Command._run_subprocess
CanSpawn(procs, handle) == handle = None \/ Exited(procs, handle)

\* a call that returns only when the process has ended
Popen_waiting(procs) == Append(procs, "exited")

\* subprocess.Popen(self.cmd, shell=True): the processes once it has returned,
\* which is as soon as the new one is started
Popen(procs) == Append(procs, "running")

\* re.match(self.payload, payload) is not None
CmdMatches(cmd, payload) == re_match(cmd.payload, payload).ok

\* the most recent step: how the call ended and the last line it logged
CmdCall(op, topic, payload, outcome, log) ==
    [op |-> op, topic |-> topic, payload |-> payload, outcome |-> outcome,
     log |-> log]

\* Command.on_message with Command._run_subprocess; popen_ok tells whether the
\* operating system starts the process or Popen raises OSError
Command_on_message(topic, payload, popen_ok) ==
    /\ popen_calls < MaxSpawns
    /\ IF ~CmdMatches(command, payload)
       THEN /\ cmd_last' = CmdCall("on_message", topic, payload, "returned", "ignoring")
            /\ UNCHANGED <<command, children, popen_calls>>
       ELSE IF ~CanSpawn(children, command.subprocess)
       THEN /\ cmd_last' = CmdCall("on_message", topic, payload, "returned", "still running")
            /\ UNCHANGED <<command, children, popen_calls>>
       ELSE /\ popen_calls' = popen_calls + 1
            /\ IF popen_ok
               THEN /\ children' = Popen(children)
                    /\ command' = [command EXCEPT !.subprocess = Some(Len(children) + 1)]
                    /\ cmd_last' = CmdCall("on_message", topic, payload, "returned", "run")
               ELSE /\ cmd_last' = CmdCall("on_message", topic, payload, "raised", "run")
                    /\ UNCHANGED <<command, children>>
    /\ UNCHANGED cmd_others

\* a started process ends
ChildExit(i) ==
    /\ children[i] = "running"
    /\ children' = [children EXCEPT ![i] = "exited"]
    /\ cmd_last' = CmdCall("exit", <<>>, <<>>, "returned", "")
    /\ UNCHANGED <<command, popen_calls>>
    /\ UNCHANGED cmd_others

\* the command trigger before mqtt-cmd.py is started
CommandIdle ==
    /\ command = Command(<<>>)
    /\ children = <<>>
    /\ popen_calls = 0
    /\ cmd_last = CmdCall("init", <<>>, <<>>, "returned", "")

\* the metric transformer before any message
TransformerStart ==
    /\ processed_topics = <<>>
    /\ now = 0
    /\ last = Call("init", <<>>, <<>>, <<>>)
    /\ first_seen = <<>>
    /\ latest = [t \in Topics |-> None]
    /\ applied_status = None
    /\ status_call = StatusIdle

\* ================================================================== router
\* the most sessions one run establishes
MaxConnects == 2

\* topic filters with a wildcard
FilterOneLevel == <<"t", "/", "+">>

FilterAllLevels == <<"t", "/", "#">>

RECURSIVE SplitLevels(_, _)
\* the levels of a topic or filter, split at "/"; cur is the level being read
SplitLevels(s, cur) ==
    IF s = <<>> THEN <<cur>>
    ELSE IF Head(s) = "/" THEN <<cur>> \o SplitLevels(Tail(s), <<>>)
    ELSE SplitLevels(Tail(s), Append(cur, Head(s)))

RECURSIVE MatchLevels(_, _)
\* MQTT wildcard matching, level by level: + is one level, # is the rest
MatchLevels(f, t) ==
    IF f = <<>> THEN t = <<>>
    ELSE IF Head(f) = <<"#">> THEN TRUE
    ELSE IF t = <<>> THEN FALSE
    ELSE IF Head(f) = <<"+">> \/ Head(f) = Head(t)
    THEN MatchLevels(Tail(f), Tail(t))
    ELSE FALSE

\* whether the transport hands a message on topic to the callback of filter
TopicMatches(filter, topic) ==
    MatchLevels(SplitLevels(filter, <<>>), SplitLevels(topic, <<>>))

\* an entry of MQTTClient.ttms of mqtt_topic_exporter.py
Ttm(topic, good, bad) ==
    [kind |-> "ttm", topic |-> topic,
     status_good_topic |-> good, status_bad_topic |-> bad]

\* an entry of MQTTClient.uows of mqttcmd.py
Uow(topic) ==
    [kind |-> "uow", topic |-> topic,
     status_good_topic |-> None, status_bad_topic |-> None]

\* the lists of actions a router is built with
RouterSetups ==
    { <<Ttm(FilterOneLevel, Some(StatusGoodTopic), Some(StatusBadTopic))>>,
      <<Ttm(FilterOneLevel, Some(StatusGoodTopic), Some(StatusGoodTopic))>>,
      <<Ttm(TopicA, Some(TopicA), None)>>,
      <<Ttm(FilterOneLevel, None, None), Ttm(FilterAllLevels, None, None)>>,
      <<Uow(TopicA), Uow(TopicA)>>,
      <<Uow(TopicA), Uow(FilterOneLevel)>> }

Modes == {"run", "run_bg"}

\* the topics of inbound messages
RouterTopics == {TopicA, TopicB, StatusGoodTopic, StatusBadTopic}

\* the bytes 1 and x, and a byte that occurs in no UTF-8 text
Byte1 == 49

ByteX == 120

ByteInvalid == 255

\* the payloads of inbound messages
RouterPayloads == {<<Byte1>>, <<ByteX>>, <<ByteInvalid>>, <<Byte1, ByteInvalid>>}

CharOf(b) == IF b = Byte1 THEN "1" ELSE "x"

\* bytes.decode(): the text, or None where it raises UnicodeDecodeError
decode(bytes) ==
    IF \E i \in 1..Len(bytes) : bytes[i] >= 128
    THEN None
    ELSE Some([i \in 1..Len(bytes) |-> CharOf(bytes[i])])

Registration(filter, i, handler) ==
    [filter |-> filter, action |-> i, handler |-> handler]

\* the message_callback_add calls on_connect makes for entry i, in order
RegistrationsOf(i, a) ==
    <<Registration(a.topic, i, "on_message")>>
    \o (IF a.status_good_topic # None
        THEN <<Registration(a.status_good_topic.v, i, "on_status_good")>>
        ELSE <<>>)
    \o (IF a.status_bad_topic # None
        THEN <<Registration(a.status_bad_topic.v, i, "on_status_bad")>>
        ELSE <<>>)

\* the message_callback_add calls of on_connect, in order
Registrations(list) ==
    Concat([i \in 1..Len(list) |-> RegistrationsOf(i, list[i])])

\* a table that keeps every callback ever added
message_callback_add_append(table, reg) == Append(table, reg)

\* mqttc.message_callback_add(filter, callback): the table holds one callback
\* for a filter string, the one added last
message_callback_add(table, reg) ==
    IF \E k \in 1..Len(table) : table[k].filter = reg.filter
    THEN [k \in 1..Len(table) |->
             IF table[k].filter = reg.filter THEN reg ELSE table[k]]
    ELSE Append(table, reg)

RECURSIVE AddCallbacks(_, _)
AddCallbacks(table, regs) ==
    IF regs = <<>> THEN table
    ELSE AddCallbacks(message_callback_add(table, Head(regs)), Tail(regs))

\* the callbacks the transport calls for a message on topic
MatchedCallbacks(table, topic) ==
    SelectSeq(table, LAMBDA e : TopicMatches(e.filter, topic))

\* where the session stands after the connect of _prepare_client
AfterFirstConnect_uncaught(connected) ==
    IF connected THEN "connecting" ELSE "exited"

AfterFirstConnect(connected) ==
    IF connected THEN "connecting" ELSE "offline"

\* the most recent inbound message: the handlers called, how the dispatch
\* ended, and the number of on_connect calls before it
Dispatched(op, topic, payload, calls, outcome) ==
    [op |-> op, topic |-> topic, payload |-> payload, calls |-> calls,
     outcome |-> outcome, connects |-> 0]

\* _prepare_client, then loop_forever (run) or loop_start (run_bg)
PrepareClient ==
    /\ session = "start"
    /\ session' = AfterFirstConnect(broker_up)
    /\ warned' = ~broker_up
    /\ UNCHANGED <<uows, mode, callbacks, subscriptions, broker_up, dispatched, connects>>
    /\ UNCHANGED router_others

\* the transport's loop connects again
LoopReconnect ==
    /\ session = "offline"
    /\ broker_up
    /\ session' = "connecting"
    /\ UNCHANGED <<uows, mode, warned, callbacks, subscriptions, broker_up, dispatched, connects>>
    /\ UNCHANGED router_others

\* MQTTClient.on_connect
on_connect ==
    /\ session = "connecting"
    /\ broker_up
    /\ connects < MaxConnects
    /\ connects' = connects + 1
    /\ session' = "online"
    /\ subscriptions' = subscriptions \cup
           {Registrations(uows)[k].filter : k \in 1..Len(Registrations(uows))}
    /\ callbacks' = AddCallbacks(callbacks, Registrations(uows))
    /\ UNCHANGED <<uows, mode, warned, broker_up, dispatched>>
    /\ UNCHANGED router_others

\* the broker goes away; MQTTClient.on_disconnect only logs
BrokerDown ==
    /\ broker_up
    /\ broker_up' = FALSE
    /\ session' = IF session \in {"connecting", "online"} THEN "offline" ELSE session
    /\ UNCHANGED <<uows, mode, warned, callbacks, subscriptions, dispatched, connects>>
    /\ UNCHANGED router_others

\* the broker can be reached again
BrokerUp ==
    /\ ~broker_up
    /\ broker_up' = TRUE
    /\ UNCHANGED <<uows, mode, session, warned, callbacks, subscriptions, dispatched, connects>>
    /\ UNCHANGED router_others

\* the handlers a message reaches: the callback made by wrap_on_message decodes
\* the payload and calls the handler; the first callback that raises ends the
\* dispatch. handler_ok is FALSE when the handler of a Command raises (Popen
\* fails)
Calls(cbs, payload, handler_ok) ==
    IF decode(payload) = None THEN <<>>
    ELSE IF handler_ok THEN cbs
    ELSE LET k == CHOOSE j \in 1..Len(cbs) :
                     /\ uows[cbs[j].action].kind = "uow"
                     /\ \A h \in 1..(j - 1) : uows[cbs[h].action].kind # "uow"
         IN  SubSeq(cbs, 1, k)

\* an inbound message: the transport calls every callback whose filter matches
\* the topic; an exception of a callback leaves the loop
Dispatch(topic, payload, handler_ok) ==
    /\ session = "online"
    /\ \E f \in subscriptions : TopicMatches(f, topic)
    /\ LET cbs == MatchedCallbacks(callbacks, topic)
       IN  /\ handler_ok \/ \E j \in 1..Len(cbs) : uows[cbs[j].action].kind = "uow"
           /\ LET raised == decode(payload) = None \/ ~handler_ok
              IN  /\ dispatched' =
                         [Dispatched("dispatch", topic, payload,
                                     Calls(cbs, payload, handler_ok),
                                     IF raised THEN "raised" ELSE "returned")
                             EXCEPT !.connects = connects]
                  /\ session' = IF raised THEN "stopped" ELSE session
    /\ UNCHANGED <<uows, mode, warned, callbacks, subscriptions, broker_up, connects>>
    /\ UNCHANGED router_others

\* the router before either program is started
RouterIdle ==
    /\ uows = <<>>
    /\ mode = "run"
    /\ session = "start"
    /\ warned = FALSE
    /\ callbacks = <<>>
    /\ subscriptions = {}
    /\ broker_up = FALSE
    /\ dispatched = Dispatched("init", <<>>, <<>>, <<>>, "returned")
    /\ connects = 0

\* ================================================================= threads
\* the threads before main has started them
ThreadsIdle ==
    /\ dispatch_thread = DispatchIdle
    /\ request_thread = RequestIdle

\* ======================================================= match_to_template
\* the longest text match_to_template is called with
MaxTextLen == 4

TextAlphabet == {"a", "1", " "}

\* the texts of at most n characters
TextsUpTo(n) == UNION {[1..k -> TextAlphabet] : k \in 0..n}

\* ([^/ ]+) (\d+)
PatWordNumber == <<Grp(NotSlashSpace), Lit(" "), Grp(Digits)>>

\* (\d+)
PatNumber == <<Grp(Digits)>>

\* \1.
PointTemplate == <<TRef(1), TChar(".")>>

\* pattern and template of a call; the template refers to groups of the pattern
MatchCases ==
    { [pattern |-> PatWordNumber, template |-> LabelsTemplate],
      [pattern |-> PatWordNumber, template |-> ValueTemplate],
      [pattern |-> PatNumber, template |-> PointTemplate] }

MatcherCall(pattern, template, text, returned, result) ==
    [pattern |-> pattern, template |-> template, text |-> text,
     returned |-> returned, result |-> result]

\* the call returns
MatchToTemplate ==
    /\ ~matcher.returned
    /\ matcher' = [matcher EXCEPT
                      !.returned = TRUE,
                      !.result = match_to_template(matcher.pattern,
                                                   matcher.template, matcher.text)]
    /\ UNCHANGED <<vars, cmd_vars, router_vars, thread_vars, config_vars,
                   exporter_vars>>

\* no call of match_to_template is watched
MatcherIdle == matcher = MatcherCall(<<>>, <<>>, <<>>, TRUE, None)

\* ------------------------------------------ exporter (PrometheusExporter)
\* the last second of the exporter's clock
ExporterMaxTime == 1

\* a Transformer: TopicToMetric.__init__ gives each its own configuration and
\* its own map
TopicToMetric(c) == [conf |-> c, processed_topics |-> <<>>]

\* ConfAny under another metric name
ConfNamed == [ConfAny EXCEPT !.metric_name = <<"k">>]

\* c with its topic option, the filter on_connect subscribes, set to one topic
Subscribed(c, topic) == [c EXCEPT !.topic = topic]

\* the lists of Transformers parse_config may build: two under one metric
\* name, the first subscribed to one topic and the second to every topic, and
\* two under different names, each subscribed to its own topic
ExporterSetups ==
    { <<TopicToMetric(Subscribed(ConfStatus, TopicA)),
        TopicToMetric(ConfTimeout)>>,
      <<TopicToMetric(Subscribed(ConfAny, TopicA)),
        TopicToMetric(Subscribed(ConfNamed, TopicB))>> }

ExporterTopics == {TopicA, TopicB}

ExporterPayloads == {<<"1">>}

\* the list with the map of its i-th Transformer replaced, and behind every
\* Transformer
TtmsWith_shared(list, i, pt) ==
    [j \in 1..Len(list) |-> [list[j] EXCEPT !.processed_topics = pt]]

\* the list with the map of its i-th Transformer replaced
TtmsWith(list, i, pt) == [list EXCEPT ![i].processed_topics = pt]

\* the list after one turn of the loop of the i-th Transformer's _set_status
TtmsAfterTurn(list, i, k, is_good) ==
    [list EXCEPT ![i].processed_topics = _set_status_turn(@, k, is_good)]

\* the i-th Transformer's call of _set_status, if one is in progress
TtmStatusCall(i, call) ==
    IF call.active THEN [index |-> i, call |-> call]
    ELSE [index |-> 0, call |-> StatusIdle]

\* the i-th Transformer's call of on_message, if one is in progress
TtmDispatch(i, thread) ==
    IF thread.pc # "idle" THEN [index |-> i, thread |-> thread]
    ELSE [index |-> 0, thread |-> DispatchIdle]

\* PrometheusExporter.metrics_text
\* after its loop: ''.join(metrics)
metrics_text(metrics) == Concat(metrics)

\* a request thread that is not inside metrics_text
ExporterRequestIdle ==
    [pc |-> "idle", ttm |-> 0, used |-> 0, index |-> 0, t |-> 0,
     metric_labels |-> <<>>, metric_text |-> <<>>, metrics |-> <<>>]

\* the request thread as get_metric_text of the j-th Transformer reaches the
\* loop over its map, with the texts collected so far
RequestAt(list, j, metrics) ==
    [ExporterRequestIdle EXCEPT !.pc = "next", !.ttm = j,
                                !.used = Len(list[j].processed_topics),
                                !.metrics = metrics]

\* the request thread as metrics_text has collected the text of a Transformer
\* and turns to the j-th
RequestBefore(j, metrics) ==
    [ExporterRequestIdle EXCEPT !.pc = "call", !.ttm = j, !.metrics = metrics]

ExporterCall(op, index, text) == [op |-> op, index |-> index, text |-> text]

\* the transport hands a data message on a topic the i-th Transformer is
\* subscribed to to its on_message, which runs up to
\* metric = self.processed_topics[topic], or to its return when the message
\* does not match
TtmOnMessage(i, topic, payload) ==
    /\ ttm_dispatch.index = 0
    /\ TopicMatches(ttms[i].conf.topic, topic)
    /\ ~ttm_status_call.call.active
    /\ ttms' = TtmsWith(ttms, i, Fetched(ttms[i].conf, ttms[i].processed_topics,
                                         topic, payload))
    /\ ttm_dispatch' = TtmDispatch(i, Entered(ttms[i].conf, ttms[i].processed_topics,
                                              topic, payload))
    /\ exporter_last' = ExporterCall("on_message", i, <<>>)
    /\ UNCHANGED <<clock, ttm_status_call, exporter_request>>
    /\ UNCHANGED exporter_others

\* the next statement of the call of on_message in progress: the clock is read
\* or one field of the record is assigned; a scrape on a request thread may run
\* before the next one
TtmOnMessageStep ==
    /\ ttm_dispatch.index # 0
    /\ LET i == ttm_dispatch.index
           thread == ttm_dispatch.thread
       IN  /\ ttms' = TtmsWith(ttms, i, MapAfterStep(ttms[i].conf,
                                                     ttms[i].processed_topics, thread))
           /\ ttm_dispatch' = TtmDispatch(i, ThreadAfterStep(ttms[i].conf, thread, clock))
           /\ exporter_last' = ExporterCall("on_message", i, <<>>)
    /\ UNCHANGED <<clock, ttm_status_call, exporter_request>>
    /\ UNCHANGED exporter_others

\* the transport hands a message on its status-good topic to the i-th
\* Transformer: on_status_good up to the loop of _set_status
TtmOnStatusGood(i, topic, payload) ==
    /\ ttm_dispatch.index = 0
    /\ ~ttm_status_call.call.active
    /\ ttms[i].conf.status_good_topic = Some(topic)
    /\ ttm_status_call' =
           TtmStatusCall(i, BeginSetStatus(ttms[i].conf.status_good_payload, payload,
                                           ttms[i].processed_topics, TRUE))
    /\ exporter_last' = ExporterCall("on_status_good", i, <<>>)
    /\ UNCHANGED <<ttms, clock, ttm_dispatch, exporter_request>>
    /\ UNCHANGED exporter_others

\* the transport hands a message on its status-bad topic to the i-th
\* Transformer: on_status_bad up to the loop of _set_status
TtmOnStatusBad(i, topic, payload) ==
    /\ ttm_dispatch.index = 0
    /\ ~ttm_status_call.call.active
    /\ ttms[i].conf.status_bad_topic = Some(topic)
    /\ ttm_status_call' =
           TtmStatusCall(i, BeginSetStatus(ttms[i].conf.status_bad_payload, payload,
                                           ttms[i].processed_topics, FALSE))
    /\ exporter_last' = ExporterCall("on_status_bad", i, <<>>)
    /\ UNCHANGED <<ttms, clock, ttm_dispatch, exporter_request>>
    /\ UNCHANGED exporter_others

\* one turn of the loop of _set_status in the Transformer that is handling a
\* status message; a scrape on a request thread may run before the next turn
TtmSetStatusTurn ==
    /\ ttm_status_call.call.active
    /\ LET i == ttm_status_call.index
           call == ttm_status_call.call
       IN  /\ ttms' = TtmsAfterTurn(ttms, i, call.next, call.is_good)
           /\ ttm_status_call' =
                  TtmStatusCall(i, AfterTurn(call, ttms[i].processed_topics))
           /\ exporter_last' = ExporterCall("_set_status", i, <<>>)
    /\ UNCHANGED <<clock, ttm_dispatch, exporter_request>>
    /\ UNCHANGED exporter_others

\* a scrape of the metrics path: metrics_text is called and turns to the first
\* Transformer
MetricsTextBegin ==
    /\ exporter_request.pc = "idle"
    /\ exporter_request' = RequestBefore(1, <<>>)
    /\ UNCHANGED <<ttms, clock, exporter_last, ttm_status_call, ttm_dispatch>>
    /\ UNCHANGED exporter_others

\* ttm.get_metric_text() is called for the Transformer metrics_text has turned
\* to, and _render_metric_text reaches its loop: self.processed_topics.items()
MetricsTextCall ==
    /\ exporter_request.pc = "call"
    /\ exporter_request' =
           RequestAt(ttms, exporter_request.ttm, exporter_request.metrics)
    /\ UNCHANGED <<ttms, clock, exporter_last, ttm_status_call, ttm_dispatch>>
    /\ UNCHANGED exporter_others

\* the loop of _render_metric_text inside metrics_text asks the iterator for
\* the next record: the iterator raises RuntimeError when the size of the map
\* has changed; after the last record the Transformer's text is collected and
\* metrics_text turns to the next Transformer, or returns; otherwise the
\* iterator yields the next record
MetricsTextNext ==
    /\ exporter_request.pc = "next"
    /\ LET j == exporter_request.ttm
           c == ttms[j].conf
           pt == ttms[j].processed_topics
       IN  IF IteratorRaises(exporter_request, pt)
           THEN /\ exporter_last' = ExporterCall("RuntimeError", j, <<>>)
                /\ exporter_request' = ExporterRequestIdle
           ELSE IF IteratorEnds(exporter_request, pt)
           THEN LET text == get_metric_text(
                                c, _render_metric_text(exporter_request.metric_text))
                    metrics == Append(exporter_request.metrics, text)
                IN  IF j = Len(ttms)
                    THEN /\ exporter_last' =
                                ExporterCall("metrics_text", 0, metrics_text(metrics))
                         /\ exporter_request' = ExporterRequestIdle
                    ELSE /\ exporter_request' = RequestBefore(j + 1, metrics)
                         /\ UNCHANGED exporter_last
           ELSE /\ exporter_request' = Yielded(c, exporter_request)
                /\ UNCHANGED exporter_last
    /\ UNCHANGED <<ttms, clock, ttm_status_call, ttm_dispatch>>
    /\ UNCHANGED exporter_others

\* the loop's next read of the clock or of a field of the record it is at; the
\* dispatch thread may run before the next read
MetricsTextRead ==
    /\ exporter_request.pc \notin {"idle", "call", "next"}
    /\ LET j == exporter_request.ttm
       IN  exporter_request' =
               LoopStep(ttms[j].conf, exporter_request,
                        ttms[j].processed_topics[exporter_request.index].metric,
                        clock)
    /\ UNCHANGED <<ttms, clock, exporter_last, ttm_status_call, ttm_dispatch>>
    /\ UNCHANGED exporter_others

\* a second passes
ExporterTick ==
    /\ clock < ExporterMaxTime
    /\ clock' = clock + 1
    /\ exporter_last' = ExporterCall("tick", 0, <<>>)
    /\ UNCHANGED <<ttms, ttm_status_call, ttm_dispatch, exporter_request>>
    /\ UNCHANGED exporter_others

\* no exporter is running
ExporterIdle ==
    /\ ttms = <<>>
    /\ clock = 0
    /\ exporter_last = ExporterCall("init", 0, <<>>)
    /\ ttm_status_call = TtmStatusCall(0, StatusIdle)
    /\ ttm_dispatch = TtmDispatch(0, DispatchIdle)
    /\ exporter_request = ExporterRequestIdle

\* ------------------------------------------------- configuration (parse_config)
\* the decimal digits
DigitSeq == <<"0", "1", "2", "3", "4", "5", "6", "7", "8", "9">>

DigitChars == {DigitSeq[i] : i \in 1..Len(DigitSeq)}

DigitValue(c) == (CHOOSE i \in 1..Len(DigitSeq) : DigitSeq[i] = c) - 1

\* the number a sequence of digits denotes
RECURSIVE Decimal(_)
Decimal(s) ==
    IF s = <<>> THEN 0
    ELSE Decimal(SubSeq(s, 1, Len(s) - 1)) * 10 + DigitValue(s[Len(s)])

\* int(text): an optional minus sign and at least one digit; None stands for
\* ValueError.  (Blanks, "+" and "_" are outside the texts drawn here.)
int(text) ==
    LET negative == text # <<>> /\ text[1] = "-"
        digits == IF negative THEN Tail(text) ELSE text
    IN  IF digits # <<>> /\ \A i \in 1..Len(digits) : digits[i] \in DigitChars
        THEN Some(IF negative THEN 0 - Decimal(digits) ELSE Decimal(digits))
        ELSE None

\* 0xFFFF
MaxPort == 65535

\* the defaults of MQTTConfig.__init__
DefaultPort == 1883

DefaultKeepalive == 0

DefaultLoglevel == "INFO"

\* the names module logging gives its levels, and two of the other names the
\* module defines
LevelNames == {"CRITICAL", "FATAL", "ERROR", "WARNING", "WARN", "INFO", "DEBUG",
               "NOTSET"}

LoggingAttributes == LevelNames \cup {"info", "Logger"}

\* re.compile(text) raises re.error when a repetition has nothing to repeat
re_compiles(text) ==
    \A i \in 1..Len(text) :
        text[i] = "*" => i > 1 /\ text[i - 1] \notin {"(", "|", "*"}

\* TryParse.timeout; None stands for ValueError
TryParse_timeout(seconds) ==
    LET s == int(seconds)
    IN  IF s = None THEN None
        ELSE IF s.v >= 0 THEN s ELSE None

\* TryParse.regexp
TryParse_regexp(text) == IF re_compiles(text) THEN Some(text) ELSE None

\* TryParse.port
TryParse_port(port) ==
    LET p == int(port)
    IN  IF p = None THEN None
        ELSE IF 1 <= p.v /\ p.v <= MaxPort THEN p ELSE None

\* TryParse.loglevel: getattr(logging, level) returns whatever the module has
\* under that name
TryParse_loglevel(level) ==
    IF level \in LoggingAttributes THEN Some(level) ELSE None

\* MQTTConfig(**section); None stands for the ValueError or TypeError raised
MQTTConfig(section) ==
    LET port == IF section.port = None THEN Some(DefaultPort)
                ELSE TryParse_port(section.port.v)
        keepalive == IF section.keepalive = None THEN Some(DefaultKeepalive)
                     ELSE TryParse_timeout(section.keepalive.v)
        loglevel == TryParse_loglevel(IF section.loglevel = None
                                      THEN DefaultLoglevel
                                      ELSE section.loglevel.v)
    IN  IF section.host = None \/ port = None \/ keepalive = None
           \/ loglevel = None
        THEN None
        ELSE Some([host |-> section.host.v, port |-> port.v,
                   keepalive |-> keepalive.v, loglevel |-> loglevel.v])

\* TopicToMetricConfig(**section) with its __post_init__; None stands for the
\* ValueError or TypeError raised
TopicToMetricConfig_post_init(section) ==
    LET pattern == IF section.topic_payload_pattern = None THEN None
                   ELSE TryParse_regexp(section.topic_payload_pattern.v)
        timeout == IF section.no_activity_timeout = None THEN Some(None)
                   ELSE LET s == TryParse_timeout(section.no_activity_timeout.v)
                        IN  IF s = None THEN None ELSE Some(s)
    IN  IF pattern = None \/ timeout = None THEN None
        ELSE Some([topic_payload_pattern |-> pattern.v,
                   no_activity_timeout |-> timeout.v])

\* what main() has of parse_config: the file it was given and how the call ended
Startup(file, stage, mqtt_conf, ttm_config) ==
    [file |-> file, stage |-> stage, mqtt_conf |-> mqtt_conf,
     ttm_config |-> ttm_config]

\* parse_config of a file with an optional [mqtt] section, no [exporter] section
\* and one metric section
parse_config(c) ==
    IF c.mqtt = None THEN Startup(c, "ConfigurationError", None, None)
    ELSE LET mqtt_conf == MQTTConfig(c.mqtt.v)
         IN  IF mqtt_conf = None
             THEN Startup(c, "ConfigurationError", None, None)
             ELSE LET ttm_config == TopicToMetricConfig_post_init(c.ttm)
                  IN  IF ttm_config = None
                      THEN Startup(c, "ConfigurationError", None, None)
                      ELSE Startup(c, "returned", mqtt_conf, ttm_config)

\* the texts a configuration file may give for each key
HostTexts == {<<"h">>}

PortTexts == {<<"0">>, <<"1">>, <<"6", "5", "5", "3", "5">>,
              <<"6", "5", "5", "3", "6">>, <<"-">>}

TimeTexts == {<<"0">>, <<"-", "1">>, <<"*">>}

LoglevelTexts == {"INFO", "NOTIFY", "info"}

PatternTexts == {<<"(", "a", "*", ")">>, <<"(", "*", "_", "*", ")">>}

Optionally(S) == {None} \cup {Some(x) : x \in S}

MqttSections ==
    [host : Optionally(HostTexts), port : Optionally(PortTexts),
     keepalive : Optionally(TimeTexts), loglevel : Optionally(LoglevelTexts)]

TtmSections ==
    [topic_payload_pattern : Optionally(PatternTexts),
     no_activity_timeout : Optionally(TimeTexts)]

ConfigFiles == [mqtt : Optionally(MqttSections), ttm : TtmSections]

\* main() calls parse_config
ParseConfig ==
    /\ startup.stage = "loaded"
    /\ startup' = parse_config(startup.file)
    /\ UNCHANGED <<vars, cmd_vars, router_vars, thread_vars, match_vars,
                   exporter_vars>>

\* no configuration file is being parsed
ConfigIdle == startup = Startup(None, "idle", None, None)

MatchInit ==
    /\ \E c \in MatchCases, text \in TextsUpTo(MaxTextLen) :
           matcher = MatcherCall(c.pattern, c.template, text, FALSE, None)
    /\ conf = ConfAny
    /\ TransformerStart
    /\ CommandIdle
    /\ RouterIdle
    /\ ThreadsIdle
    /\ ConfigIdle
    /\ ExporterIdle

MatchNext == MatchToTemplate

SpecMatch == MatchInit /\ [][MatchNext]_allvars

StatusInit ==
    /\ conf \in StatusConfigs
    /\ TransformerStart
    /\ ThreadsIdle
    /\ CommandIdle
    /\ RouterIdle
    /\ MatcherIdle
    /\ ConfigIdle
    /\ ExporterIdle

StatusNext ==
    \/ \E topic \in GatedTopics, payload \in GatedPayloads :
           on_message(topic, payload)
    \/ OnMessageStep
    \/ \E payload \in StatusPayloads : on_status_good(StatusGoodTopic, payload)
    \/ \E payload \in StatusPayloads : on_status_bad(StatusBadTopic, payload)
    \/ SetStatusTurn
    \/ RenderBegin
    \/ RenderNext
    \/ RenderRead
    \/ Tick

SpecStatus == StatusInit /\ [][StatusNext]_allvars

CmdInit ==
    /\ command \in {Command(p) : p \in CmdPayloadPatterns}
    /\ children = <<>>
    /\ popen_calls = 0
    /\ cmd_last = CmdCall("init", <<>>, <<>>, "returned", "")
    /\ conf = ConfAny
    /\ TransformerStart
    /\ RouterIdle
    /\ ThreadsIdle
    /\ MatcherIdle
    /\ ConfigIdle
    /\ ExporterIdle

CmdNext ==
    \/ \E topic \in Topics, payload \in Payloads, popen_ok \in BOOLEAN :
           Command_on_message(topic, payload, popen_ok)
    \/ \E i \in 1..Len(children) : ChildExit(i)

SpecCmd == CmdInit /\ [][CmdNext]_allvars

RouterInit ==
    /\ uows \in RouterSetups
    /\ mode \in Modes
    /\ session = "start"
    /\ warned = FALSE
    /\ callbacks = <<>>
    /\ subscriptions = {}
    /\ broker_up \in BOOLEAN
    /\ dispatched = Dispatched("init", <<>>, <<>>, <<>>, "returned")
    /\ connects = 0
    /\ conf = ConfAny
    /\ TransformerStart
    /\ CommandIdle
    /\ ThreadsIdle
    /\ MatcherIdle
    /\ ConfigIdle
    /\ ExporterIdle

RouterNext ==
    \/ PrepareClient
    \/ LoopReconnect
    \/ on_connect
    \/ BrokerDown
    \/ BrokerUp
    \/ \E topic \in RouterTopics, payload \in RouterPayloads, handler_ok \in BOOLEAN :
           Dispatch(topic, payload, handler_ok)

SpecRouter == RouterInit /\ [][RouterNext]_allvars

\* the main thread starts the client, the transport's loop keeps trying to
\* connect, and a reachable broker answers
RouterFairness ==
    /\ WF_allvars(PrepareClient)
    /\ WF_allvars(LoopReconnect)
    /\ WF_allvars(on_connect)

SpecRouterLive == SpecRouter /\ RouterFairness

ConfigInit ==
    /\ \E file \in ConfigFiles : startup = Startup(file, "loaded", None, None)
    /\ conf = ConfAny
    /\ TransformerStart
    /\ CommandIdle
    /\ RouterIdle
    /\ ThreadsIdle
    /\ MatcherIdle
    /\ ExporterIdle

ConfigNext == ParseConfig

SpecConfig == ConfigInit /\ [][ConfigNext]_allvars

ExporterInit ==
    /\ ttms \in ExporterSetups
    /\ clock = 0
    /\ exporter_last = ExporterCall("init", 0, <<>>)
    /\ ttm_status_call = TtmStatusCall(0, StatusIdle)
    /\ ttm_dispatch = TtmDispatch(0, DispatchIdle)
    /\ exporter_request = ExporterRequestIdle
    /\ conf = ConfAny
    /\ TransformerStart
    /\ CommandIdle
    /\ RouterIdle
    /\ ThreadsIdle
    /\ MatcherIdle
    /\ ConfigIdle

ExporterNext ==
    \/ \E i \in 1..Len(ttms), topic \in ExporterTopics, payload \in ExporterPayloads :
           TtmOnMessage(i, topic, payload)
    \/ \E i \in 1..Len(ttms), payload \in StatusPayloads :
           TtmOnStatusGood(i, StatusGoodTopic, payload)
    \/ \E i \in 1..Len(ttms), payload \in StatusPayloads :
           TtmOnStatusBad(i, StatusBadTopic, payload)
    \/ TtmOnMessageStep
    \/ TtmSetStatusTurn
    \/ MetricsTextBegin
    \/ MetricsTextCall
    \/ MetricsTextNext
    \/ MetricsTextRead
    \/ ExporterTick

SpecExporter == ExporterInit /\ [][ExporterNext]_allvars

\* ----------------------------------------------------------- specification
Init ==
    /\ conf \in Configs
    /\ TransformerStart
    /\ CommandIdle
    /\ RouterIdle
    /\ ThreadsIdle
    /\ MatcherIdle
    /\ ConfigIdle
    /\ ExporterIdle

Next ==
    \/ \E topic \in Topics, payload \in Payloads : on_message(topic, payload)
    \/ OnMessageStep
    \/ RenderBegin
    \/ RenderNext
    \/ RenderRead
    \/ Tick

Spec == Init /\ [][Next]_allvars


\* ============================================================== properties
\* ------------------------------------------------------- reading a document
RECURSIVE SplitLines(_, _)
\* the lines of text, without their newlines; cur is the line being read
SplitLines(text, cur) ==
    IF text = <<>> THEN (IF cur = <<>> THEN <<>> ELSE <<cur>>)
    ELSE IF Head(text) = "\n" THEN <<cur>> \o SplitLines(Tail(text), <<>>)
    ELSE SplitLines(Tail(text), Append(cur, Head(text)))

IsHeaderLine(line) == line # <<>> /\ line[1] = "#"
HeaderLinesOf(text) == SelectSeq(SplitLines(text, <<>>), IsHeaderLine)
BodyLinesOf(text) == SelectSeq(SplitLines(text, <<>>), LAMBDA l : ~IsHeaderLine(l))

\* the body line that shows labels and value under the metric name of c
LineFor(c, labels, value) ==
    c.metric_name \o <<"{">> \o labels \o <<"}", " ">> \o value

\* labels and value a message yields: the two templates over its match
LabelsOf(c, topic, payload) ==
    match_to_template(c.topic_payload_pattern, c.labels_template,
                      Combined(c, topic, payload)).v
ValueOf(c, topic, payload) ==
    match_to_template(c.topic_payload_pattern, c.value_template,
                      Combined(c, topic, payload)).v

\* the last step was a scrape
Rendered == last.op = "get_metric_text" /\ ~last.raised /\ ~last.pending

\* the record passes the checks of the loop of _render_metric_text
PassesRenderChecks(c, metric, t) ==
    /\ c.no_activity_timeout # None => t - metric.last_update <= c.no_activity_timeout.v
    /\ metric.status_is_good

\* what a scrape of the map pt at clock value t, overlapped by no other
\* step, returns
RenderOf(c, pt, t) ==
    LET kept == SelectSeq(pt, LAMBDA e : PassesRenderChecks(c, e.metric, t))
    IN  IF kept = <<>> THEN <<>>
        ELSE _render_metric_header(c)
             \o Concat([i \in 1..Len(kept) |->
                           LineFor(c, kept[i].metric.metric_labels,
                                   kept[i].metric.metric_value) \o NL])

\* no call of on_message is in progress: the dispatch thread is between two
\* calls
NoMessageInProgress == dispatch_thread.pc = "idle"

\* the scrape that has just returned read every record as it is now, at the
\* present clock value: between its call and its return no statement of a
\* handler ran and the clock did not move, and no call of on_message was
\* under way
RenderedNow == Rendered /\ last.alone /\ NoMessageInProgress

\* ----------------------------------------------------------------------- C1
\* C1: a message whose combined text does not match the pattern leaves the
\* record map exactly as it was: no record is created and no field of an
\* existing record changes.
C1_MismatchLeavesMap ==
    [][(/\ last'.op = "on_message"
        /\ ~Matches(conf, last'.topic, last'.payload)
        /\ on_message(last'.topic, last'.payload))
          => processed_topics' = processed_topics]_allvars

\* a mismatching message was handled for a topic that has a record
C1_Witness ==
    /\ last.op = "on_message"
    /\ ~Matches(conf, last.topic, last.payload)
    /\ last.topic \in KeySet(processed_topics)
    /\ Get(processed_topics, last.topic).metric_value # <<>>

\* ----------------------------------------------------------------------- C2
\* the step belongs to a call of on_message with a matching message: the call
\* is made and fetches the record, or executes its next statement
MatchingCallStep == dispatch_thread' # dispatch_thread

\* the topic of the call the step belongs to
CallTopic ==
    IF dispatch_thread.pc = "idle" THEN dispatch_thread'.topic
    ELSE dispatch_thread.topic

\* C2: a matching message creates or updates exactly one record, the one of
\* its topic: every statement of the call leaves every other record unchanged,
\* the call reads the current time and returns with the record stamped with
\* it and holding the labels and value of the message; no step ever removes a
\* record or lowers its last_update.
C2_OneRecordPerMatch ==
    [][/\ MatchingCallStep
             => /\ last'.op = "on_message"
                /\ last'.topic = CallTopic
                /\ Matches(conf, last'.topic, last'.payload)
                /\ KeySet(processed_topics') =
                       KeySet(processed_topics) \cup {CallTopic}
                /\ Len(processed_topics') = Cardinality(KeySet(processed_topics'))
                /\ \A k \in KeySet(processed_topics) \ {CallTopic} :
                      Get(processed_topics', k) = Get(processed_topics, k)
                /\ dispatch_thread.pc = "now" => dispatch_thread'.t = now
                /\ dispatch_thread'.pc = "idle" =>
                      LET m == Get(processed_topics', CallTopic)
                      IN  /\ m.last_update = dispatch_thread.t
                          /\ m.metric_labels =
                                 LabelsOf(conf, last'.topic, last'.payload)
                          /\ m.metric_value =
                                 ValueOf(conf, last'.topic, last'.payload)
       /\ \A k \in KeySet(processed_topics) :
             /\ k \in KeySet(processed_topics')
             /\ Get(processed_topics', k).last_update
                    >= Get(processed_topics, k).last_update]_allvars

\* a matching message has updated an older record while another record exists
C2_Witness ==
    /\ last.op = "on_message"
    /\ NoMessageInProgress
    /\ Matches(conf, last.topic, last.payload)
    /\ Len(processed_topics) = 2
    /\ Get(processed_topics, last.topic).last_update = now
    /\ \E k \in KeySet(processed_topics) :
          Get(processed_topics, k).last_update < now
    /\ first_seen[2].topic # last.topic

\* ----------------------------------------------------------------------- C3
\* C3: after any sequence of messages the map holds one record per topic that
\* ever matched, its labels and value are those of the topic's most recent
\* matching message, and a rendered document holds at most one body line per
\* topic, each showing the labels and value of that topic's most recent
\* matching message.
C3_LastWriteWins ==
    /\ Len(processed_topics) = Cardinality(KeySet(processed_topics))
    /\ NoMessageInProgress =>
          /\ KeySet(processed_topics) = {t \in Topics : latest[t] # None}
          /\ \A k \in KeySet(processed_topics) :
                /\ Get(processed_topics, k).metric_labels
                       = LabelsOf(conf, k, latest[k].v.payload)
                /\ Get(processed_topics, k).metric_value
                       = ValueOf(conf, k, latest[k].v.payload)
    /\ RenderedNow =>
          LET body == BodyLinesOf(last.text)
          IN  /\ Len(body) <= Cardinality(KeySet(processed_topics))
              /\ \A i \in 1..Len(body) :
                    \E k \in KeySet(processed_topics) :
                       body[i] = LineFor(conf, LabelsOf(conf, k, latest[k].v.payload),
                                         ValueOf(conf, k, latest[k].v.payload))
              /\ \A i, j \in 1..Len(body) : body[i] = body[j] => i = j

\* a document was rendered after a topic's value was overwritten: the topic
\* seen first was updated after the second topic appeared
C3_Witness ==
    /\ RenderedNow
    /\ Len(BodyLinesOf(last.text)) = 2
    /\ Len(first_seen) = 2
    /\ Get(processed_topics, first_seen[1].topic).last_update
          > Get(processed_topics, first_seen[2].topic).last_update


\* text is the header block of c followed by at least one body line and by
\* no further header line
HeaderThenBody(c, text) ==
    LET header == _render_metric_header(c)
        n == Len(header)
    IN  /\ Len(text) > n
        /\ SubSeq(text, 1, n) = header
        /\ HeaderLinesOf(SubSeq(text, n + 1, Len(text))) = <<>>
        /\ Len(BodyLinesOf(text)) >= 1
        /\ text[Len(text)] = "\n"

\* ----------------------------------------------------------------------- C4
\* the record passes every visibility filter: it is not stale, its gate is
\* open, and with only_float_values its value parses as a float
Visible(c, metric, t) ==
    /\ PassesRenderChecks(c, metric, t)
    /\ _valid_metric_value(c, metric.metric_value)

\* C4: get_metric_text returns the empty text or one header block followed by
\* at least one body line, never a header without a body; a scrape that read
\* the records as they are returns the empty text exactly when no record
\* passes all visibility filters (staleness, gate and numeric value)
C4_EmptyOrHeaderAndBody ==
    /\ Rendered =>
          /\ last.text # <<>> => HeaderThenBody(conf, last.text)
          /\ ~(HeaderLinesOf(last.text) # <<>> /\ BodyLinesOf(last.text) = <<>>)
    /\ RenderedNow =>
          LET visible == {i \in 1..Len(processed_topics) :
                             Visible(conf, processed_topics[i].metric, now)}
          IN  /\ visible = {} => last.text = <<>>
              /\ visible # {} => HeaderThenBody(conf, last.text)

\* ----------------------------------------------------------------------- C5
\* C5: the body lines of a rendered document are the lines of the topics
\* that pass the render checks, one each, in the order in which the topics
\* first matched (an update does not move a line), under one header block.
C5_FirstSeenOrder ==
    /\ Keys(processed_topics) = [i \in 1..Len(first_seen) |-> first_seen[i].topic]
    /\ RenderedNow =>
          LET shown == SelectSeq(first_seen, LAMBDA e :
                          PassesRenderChecks(conf, Get(processed_topics, e.topic), now))
          IN  /\ BodyLinesOf(last.text) =
                    [i \in 1..Len(shown) |->
                        LineFor(conf, Get(processed_topics, shown[i].topic).metric_labels,
                                Get(processed_topics, shown[i].topic).metric_value)]
              /\ shown # <<>> => HeaderThenBody(conf, last.text)

\* two lines were rendered after the topic seen first was updated again
C5_Witness ==
    /\ RenderedNow
    /\ Len(BodyLinesOf(last.text)) = 2
    /\ first_seen = <<[topic |-> TopicB], [topic |-> TopicA]>>
    /\ latest[TopicB].v.at > latest[TopicA].v.at

\* ----------------------------------------------------------------------- C6
\* C6: with no_activity_timeout = T, a record with a good gate and a numeric
\* value whose latest matching message came at t0 is in the document
\* rendered at time t if and only if t - t0 <= T.
C6_VisibleUntilTimeout ==
    (RenderedNow /\ conf.no_activity_timeout # None) =>
        \A k \in KeySet(processed_topics) :
            LET m == Get(processed_topics, k)
                line == LineFor(conf, m.metric_labels, m.metric_value)
                body == BodyLinesOf(last.text)
            IN  (m.status_is_good /\ IsFloat(m.metric_value)) =>
                    ((\E i \in 1..Len(body) : body[i] = line)
                        <=> now - latest[k].v.at <= conf.no_activity_timeout.v)

\* a record is rendered exactly at its timeout while another one, older, is not
C6_Witness ==
    /\ RenderedNow
    /\ conf.no_activity_timeout # None
    /\ Len(processed_topics) = 2
    /\ Len(BodyLinesOf(last.text)) = 1
    /\ \E k \in KeySet(processed_topics) :
          /\ now - latest[k].v.at = conf.no_activity_timeout.v
          /\ Get(processed_topics, k).status_is_good
    /\ \E k \in KeySet(processed_topics) :
          /\ now - latest[k].v.at > conf.no_activity_timeout.v
          /\ Get(processed_topics, k).status_is_good

\* ----------------------------------------------------------------------- C7
\* C7: with only_float_values true, no rendered body line shows a record
\* whose value does not parse as a float; the record stays in the map.
C7_OnlyFloatRendered ==
    (RenderedNow /\ conf.only_float_values) =>
        \A k \in KeySet(processed_topics) :
            LET m == Get(processed_topics, k)
                line == LineFor(conf, m.metric_labels, m.metric_value)
                body == BodyLinesOf(last.text)
            IN  ~IsFloat(m.metric_value) => \A i \in 1..Len(body) : body[i] # line


\* ----------------------------------------------------------------------- C8
\* C8: with status_good_topic configured, a fresh record with a numeric
\* value is absent from the document before the good payload is observed,
\* present once the good payload is the latest status observed, and absent
\* again once the bad payload is (in the states where no status message is
\* being handled).
C8_GateFollowsStatus ==
    (RenderedNow /\ conf.status_good_topic # None /\ ~status_call.active) =>
        \A k \in KeySet(processed_topics) :
            LET m == Get(processed_topics, k)
                line == LineFor(conf, m.metric_labels, m.metric_value)
                body == BodyLinesOf(last.text)
                fresh == conf.no_activity_timeout # None =>
                            now - m.last_update <= conf.no_activity_timeout.v
            IN  (fresh /\ IsFloat(m.metric_value)) =>
                    ((\E i \in 1..Len(body) : body[i] = line)
                        <=> applied_status = Some(TRUE))

\* ----------------------------------------------------------------------- C9
\* C9: with status_good_topic configured, every record of the Transformer
\* has the status applied most recently (false when none was), records
\* created after the last status message included (in the states where no
\* status or data message is being handled).
C9_UniformStatus ==
    (conf.status_good_topic # None /\ ~status_call.active /\ NoMessageInProgress) =>
        \A k \in KeySet(processed_topics) :
            Get(processed_topics, k).status_is_good = (applied_status = Some(TRUE))

\* ---------------------------------------------------------------------- C10
\* C10: without status_good_topic, every record in the map has
\* status_is_good true, whatever data and status messages arrived, also when
\* a status-bad topic is configured on its own (in the states where no status
\* or data message is being handled).
C10_GoodWithoutGoodTopic ==
    (conf.status_good_topic = None /\ ~status_call.active /\ NoMessageInProgress) =>
        \A k \in KeySet(processed_topics) :
            Get(processed_topics, k).status_is_good

\* ----------------------------------------------------------- command trigger
Running(procs) == {i \in 1..Len(procs) : procs[i] = "running"}

\* the step is a call of Command.on_message with a payload that matches
MatchingMessageStep ==
    /\ cmd_last'.op = "on_message"
    /\ CmdMatches(command, cmd_last'.payload)

\* the process started last is still alive
ChildAlive ==
    children # <<>> /\ children[Len(children)] = "running"

\* C11: at most one process started by a Command is alive at any moment, and a
\* matching message that arrives while the previous process is alive starts
\* nothing and leaves the stored handle as it was
C11_SingleFlight ==
    [][ /\ Cardinality(Running(children')) <= 1
        /\ (MatchingMessageStep /\ ChildAlive) =>
              /\ children' = children
              /\ command' = command
              /\ popen_calls' = popen_calls ]_allvars

\* a matching message was ignored while the process started before is alive
C11_Witness ==
    /\ cmd_last.op = "on_message"
    /\ cmd_last.log = "still running"
    /\ CmdMatches(command, cmd_last.payload)
    /\ Running(children) = {command.subprocess.v}

\* C12: a call of Command.on_message starts a process exactly when the payload
\* matches and no process was ever started or the previous one has exited (and
\* the operating system starts it); a step that is no such call starts none
C12_SpawnExactlyWhenFree ==
    [][ /\ (popen_calls' = popen_calls + 1) <=>
              /\ MatchingMessageStep
              /\ ~ChildAlive
        /\ popen_calls' # popen_calls + 1 => popen_calls' = popen_calls
        /\ (Len(children') = Len(children) + 1) <=>
              /\ popen_calls' = popen_calls + 1
              /\ cmd_last'.outcome = "returned"
        /\ Len(children') # Len(children) + 1 => Len(children') = Len(children)
      ]_allvars

\* two matching messages while the first process was alive, a third after it
\* had exited: two processes in total, the second one alive
C12_Witness ==
    /\ children = <<"exited", "running">>
    /\ popen_calls = 2
    /\ command.subprocess = Some(2)
    /\ cmd_last.op = "on_message"
    /\ cmd_last.log = "still running"

\* C13: a call of Command.on_message during which the process could not be
\* started still returns normally to the dispatcher
C13_SpawnFailureReturns ==
    cmd_last.op = "on_message" => cmd_last.outcome = "returned"


\* -------------------------------------------------------------------- router
\* the last inbound message was handed to handler of entry i, count times
Invocations(i, handler) ==
    Cardinality({j \in 1..Len(dispatched.calls) :
                    /\ dispatched.calls[j].action = i
                    /\ dispatched.calls[j].handler = handler})

\* an inbound message was dispatched and every callback returned
DispatchReturned ==
    dispatched.op = "dispatch" /\ dispatched.outcome = "returned"

\* C14: a message on the data filter of a Transformer reaches its on_message,
\* one on its status-good topic reaches its on_status_good and one on its
\* status-bad topic reaches its on_status_bad, also when these are the same
\* filter string
C14_OwnCallbackPerTopic ==
    DispatchReturned =>
        \A i \in 1..Len(uows) :
            uows[i].kind = "ttm" =>
                /\ TopicMatches(uows[i].topic, dispatched.topic)
                       => Invocations(i, "on_message") >= 1
                /\ uows[i].status_good_topic = Some(dispatched.topic)
                       => Invocations(i, "on_status_good") >= 1
                /\ uows[i].status_bad_topic = Some(dispatched.topic)
                       => Invocations(i, "on_status_bad") >= 1

\* C15: the handler of every registered Action whose topic filter matches the
\* topic of an inbound message is invoked exactly once, also when two Actions
\* have the same filter string
C15_EveryMatchingActionOnce ==
    DispatchReturned =>
        \A i \in 1..Len(uows) :
            Invocations(i, "on_message") =
                IF TopicMatches(uows[i].topic, dispatched.topic) THEN 1 ELSE 0

\* C16: the callback made by wrap_on_message returns normally for every inbound
\* message, and the session loop is never left because of one
C16_NoMessageStopsLoop ==
    /\ dispatched.op = "dispatch" => dispatched.outcome = "returned"
    /\ session # "stopped"

\* every filter on_connect subscribes
AllFilters ==
    UNION { {uows[i].topic}
            \cup (IF uows[i].status_good_topic # None
                  THEN {uows[i].status_good_topic.v} ELSE {})
            \cup (IF uows[i].status_bad_topic # None
                  THEN {uows[i].status_bad_topic.v} ELSE {}) : i \in 1..Len(uows) }

Established == session = "online" /\ subscriptions = AllFilters

\* C17: when the first connection attempt fails, a warning is logged and the
\* session loop is entered, in either mode; and if the broker is reachable from
\* some moment on, the session is eventually established with every filter
\* subscribed
C17_FirstConnectFailureIsNotFatal ==
    /\ [][ (session = "start" /\ session' # "start" /\ ~broker_up)
               => (warned' /\ session' = "offline") ]_allvars
    /\ (<>[]broker_up) => <>Established

\* the first attempt failed, and the session was established later
C17_Witness ==
    /\ warned
    /\ mode = "run"
    /\ Established

\* ------------------------------------------------------------------- threads
\* the map as the last complete call of on_message left it
LastComplete(pt, thread) ==
    IF thread.pc = "idle" THEN pt ELSE thread.before

\* the record of topic in the map, if it has one
Lookup(pt, topic) ==
    IF topic \in KeySet(pt) THEN Some(Get(pt, topic)) ELSE None

\* C18: every body line get_metric_text emits while on_message runs on the
\* other thread is made from a record as a complete call of on_message left
\* it, never from one whose fields are partly assigned: when the loop appends
\* a line the record is as the last complete call left it, and the line shows
\* its labels and value
C18_NoTornRecord ==
    [][ (request_thread.pc = "metric_value" /\ request_thread'.pc = "next") =>
          LET e == processed_topics[request_thread.index]
              complete == LastComplete(processed_topics, dispatch_thread)
              text == request_thread'.metric_text
          IN  /\ Lookup(complete, e.topic) = Some(e.metric)
              /\ text[Len(text)] = BodyLine(conf, e.metric.metric_labels,
                                            e.metric.metric_value) ]_allvars

\* C19: a render during which on_message inserts a record for a new topic does
\* not fail, and visits each record that existed when it began exactly once
C19_RenderSurvivesInsert ==
    /\ ~last.raised
    /\ Rendered => last.visited = last.start_keys

\* --------------------------------------------------------- match_to_template
\* C20: match_to_template returns no match when the pattern does not match at
\* the start of the text, and otherwise exactly the template with each
\* backreference replaced by its group; text after the match is not in it
C20_TemplateOnly ==
    matcher.returned /\ matcher.pattern # <<>> =>
        LET m == re_match(matcher.pattern, matcher.text)
        IN  matcher.result =
                IF m.ok THEN Some(Expand(matcher.template, m.groups)) ELSE None

\* ---------------------------------------------------------------------- C23
\* the record of topic k is in the map and too old to be rendered
Stale(c, pt, k, t) ==
    /\ k \in KeySet(pt)
    /\ c.no_activity_timeout # None
    /\ t - Get(pt, k).last_update > c.no_activity_timeout.v

\* the body line of the record of topic k is in text
ShownIn(c, pt, k, text) ==
    LET m == Get(pt, k)
        body == BodyLinesOf(text)
    IN  \E i \in 1..Len(body) : body[i] = LineFor(c, m.metric_labels, m.metric_value)

StatusStep == last'.op \in {"on_status_good", "on_status_bad", "_set_status"}

\* the payload of the status step is not the configured one
OtherStatusPayload ==
    \/ last'.op = "on_status_good" /\ conf.status_good_payload # Some(last'.payload)
    \/ last'.op = "on_status_bad" /\ conf.status_bad_payload # Some(last'.payload)

\* C26: on_status_good and on_status_bad create no record and change no
\* labels, value or last_update, and with a payload other than the configured
\* one they leave the gates as they are too: the map is unchanged and the loop
\* over the records does not begin
C26_StatusChangesOnlyGate ==
    [][ StatusStep =>
          /\ Keys(processed_topics') = Keys(processed_topics)
          /\ \A i \in 1..Len(processed_topics) :
                /\ processed_topics'[i].metric.metric_labels
                       = processed_topics[i].metric.metric_labels
                /\ processed_topics'[i].metric.metric_value
                       = processed_topics[i].metric.metric_value
                /\ processed_topics'[i].metric.last_update
                       = processed_topics[i].metric.last_update
          /\ last'.op # "_set_status" => processed_topics' = processed_topics
          /\ OtherStatusPayload => ~status_call'.active ]_allvars

\* the configured bad payload is being applied: the loop has closed the gate of
\* the first of two records, which had been open, is stale and keeps its old
\* timestamp and labels
C26_Witness ==
    /\ last.op = "_set_status"
    /\ status_call.active
    /\ ~status_call.is_good
    /\ Len(processed_topics) = 2
    /\ Stale(conf, processed_topics, processed_topics[1].topic, now)
    /\ ~processed_topics[1].metric.status_is_good
    /\ processed_topics[2].metric.status_is_good
    /\ processed_topics[1].metric.metric_labels # <<>>

\* ---------------------------------------------------------------------- C28
\* a step of a scrape: get_metric_text is called, its loop asks for the next
\* record or reads the clock or a field, or it leaves
RenderStep == request_thread' # request_thread

\* C28: get_metric_text creates no record and changes no record field, and of
\* two scrapes with no message and no clock tick from the call of the first to
\* the return of the second, the second returns the text of the first
C28_RenderReadOnly ==
    [][ RenderStep =>
          /\ processed_topics' = processed_topics
          /\ (last.pending /\ last.again /\ Rendered' /\ last'.alone)
                 => last'.text = last.text ]_allvars

\* a second scrape of a map of two records is about to return, directly after a
\* scrape that returned two body lines
C28_Witness ==
    /\ request_thread.pc = "next"
    /\ last.pending
    /\ last.again
    /\ Len(BodyLinesOf(last.text)) = 2
    /\ Len(processed_topics) = 2
    /\ request_thread.index = 2
    /\ now > 0

C25_ReturnsWithoutWaiting ==
    [][ /\ Len(children') = Len(children) + 1 =>
              /\ cmd_last'.op = "on_message"
              /\ cmd_last'.outcome = "returned"
              /\ children'[Len(children')] = "running"
        /\ (ChildAlive' /\ popen_calls' < MaxSpawns) =>
              \A topic \in Topics, payload \in Payloads :
                  (ENABLED Command_on_message(topic, payload, TRUE))' ]_allvars

\* while the process started first was alive, a message whose payload does not
\* match was handled after it
C25_Witness ==
    /\ children = <<"running">>
    /\ cmd_last.op = "on_message"
    /\ cmd_last.log = "ignoring"
    /\ cmd_last.outcome = "returned"

\* ---------------------------------------------------------------------- C27
\* the step is a call of on_connect
ConnectStep == session = "connecting" /\ session' = "online"

\* C27: a call of on_connect after the first one leaves the subscribed filters
\* and the callback of each filter as they were; no step that connects,
\* disconnects or reconnects changes the records; and a message invokes each
\* bound handler at most once
C27_ReconnectIdempotent ==
    /\ [][ /\ (ConnectStep /\ connects >= 1) =>
                 /\ callbacks' = callbacks
                 /\ subscriptions' = subscriptions
           /\ session' # session => processed_topics' = processed_topics
         ]_allvars
    /\ [](DispatchReturned =>
              \A i \in 1..Len(uows) :
                  \A h \in {"on_message", "on_status_good", "on_status_bad"} :
                      Invocations(i, h) <= 1)

\* a message was dispatched to a handler in the second session
C27_Witness ==
    /\ DispatchReturned
    /\ dispatched.connects = 2
    /\ dispatched.calls # <<>>
    /\ session = "online"


\* ------------------------------------------------------------ configuration
\* a configuration parse_config returned satisfies the constraints on its values
ValidConfigs(s) ==
    /\ s.file.mqtt # None
    /\ s.file.mqtt.v.host # None
    /\ s.file.ttm.topic_payload_pattern # None
    /\ s.mqtt_conf.v.port \in 1..MaxPort
    /\ s.mqtt_conf.v.keepalive >= 0
    /\ s.mqtt_conf.v.loglevel \in LevelNames
    /\ re_compiles(s.ttm_config.v.topic_payload_pattern)
    /\ s.ttm_config.v.no_activity_timeout # None
           => s.ttm_config.v.no_activity_timeout.v >= 0

\* C22: parse_config either raises ConfigurationError or returns configurations
\* that all satisfy their constraints: the port an integer in 1..65535, keepalive
\* and no_activity_timeout integers >= 0, a pattern that compiles, a loglevel
\* that is a log level, the required keys and the [mqtt] section present
C22_ErrorOrValid ==
    startup.stage \in {"ConfigurationError", "returned"}
        => \/ startup.stage = "ConfigurationError"
           \/ ValidConfigs(startup)


\* ----------------------------------------------------------------- exporter
\* the first line of the header block of c
TypeLine(c) == TYPE_ \o c.metric_name \o <<" ">> \o c.metric_type

\* the places of a document's lines that open a header block of c's metric name
HeaderBlocksOf(c, text) ==
    LET lines == SplitLines(text, <<>>)
    IN  {k \in 1..Len(lines) : lines[k] = TypeLine(c)}

\* the places of a document's body lines under c's metric name
BodyPlacesOf(c, text) ==
    LET lines == SplitLines(text, <<>>)
        start == c.metric_name \o <<"{">>
    IN  {k \in 1..Len(lines) :
            /\ Len(lines[k]) >= Len(start)
            /\ SubSeq(lines[k], 1, Len(start)) = start}

\* C21: the document metrics_text returns has at most one header block per
\* metric name, and the body lines of that metric come after it, for any list
\* of Transformers, several with the same metric_name included
C21_OneHeaderPerName ==
    exporter_last.op = "metrics_text" =>
        \A i \in 1..Len(ttms) :
            LET c == ttms[i].conf
                text == exporter_last.text
            IN  /\ Cardinality(HeaderBlocksOf(c, text)) <= 1
                /\ \A b \in BodyPlacesOf(c, text) :
                       \E h \in HeaderBlocksOf(c, text) : h < b


\* the last step handed a data or status message to the i-th Transformer
HandledBy(i) ==
    /\ exporter_last'.op \in {"on_message", "on_status_good", "on_status_bad",
                             "_set_status"}
    /\ exporter_last'.index = i

\* C24: Transformers share no record state: a data or status message handled by
\* one Transformer leaves the map and every record field, last_update included,
\* of every other Transformer as it was, and what another Transformer renders
\* does not change
C24_NoSharedRecords ==
    [][\A i \in 1..Len(ttms), j \in 1..Len(ttms) :
          (i # j /\ HandledBy(i))
          => /\ ttms'[j] = ttms[j]
             /\ RenderOf(ttms'[j].conf, ttms'[j].processed_topics, clock')
                    = RenderOf(ttms[j].conf, ttms[j].processed_topics, clock)]_allvars

\* the first Transformer has just handled a data message, both Transformers
\* hold records, and the first holds one for a topic the second has not seen
C24_Witness ==
    /\ exporter_last.op = "on_message"
    /\ exporter_last.index = 1
    /\ ttms[2].processed_topics # <<>>
    /\ KeySet(ttms[1].processed_topics) \ KeySet(ttms[2].processed_topics) # {}
    /\ \E k \in 1..Len(ttms[1].processed_topics) :
           ttms[1].processed_topics[k].metric.last_update = ExporterMaxTime

====
